---- MODULE Spec2Model ----
(***************************************************************************)
(* Model of catalyzeio/docker-container-metrics.                           *)
(*                                                                         *)
(*   collector/collector.py  the ingestion endpoint (on_post) and the      *)
(*                           writer run in a spawned Process (StatHandler) *)
(*   sender/sender.py        one collection cycle: module load, sampling,  *)
(*                           aggregation and the POST to the collector     *)
(*                                                                         *)
(* The two programs run on different hosts and share no state; each has    *)
(* its own specification (Spec for the collector, SenderSpec for the       *)
(* sender).                                                                *)
(***************************************************************************)
EXTENDS Integers, Sequences, FiniteSets, TLC

VARIABLES
    metadata_fun,   \* collector: "default" (None was passed) or "injected"
    reqs,           \* collector: the requests on_post has handled, in order
    resp,           \* collector: resp[r] is the response to reqs[r]
    procs,          \* collector: the Process objects started, in order
    store,          \* collector: the write_points calls made, with outcome
    log,            \* collector: messages given to logger.error
    MATCH_TYPE,     \* sender: the MATCH_TYPE environment variable
    match_container_name,   \* sender: the module-level name, None while unbound
    pc,             \* sender: where the script is
    exc,            \* sender: the exception that ended the script, or None
    processes,      \* sender: the sampling Process of each container, in order
    p_at,           \* sender: the process the start/join loop is at
    machine_stats,  \* sender: the Manager dict, as <<key, value>> in insertion order
    item_at,        \* sender: the item the aggregation loop is at
    payload,        \* sender: the payload dict, as <<key, records>> pairs
    posts,          \* sender: the requests.post calls made, with outcome
    printed         \* sender: whether 'SENT DATA TO COLLECTOR' was printed

collVars == <<metadata_fun, reqs, resp, procs, store, log>>

sendVars == <<MATCH_TYPE, match_container_name, pc, exc, processes, p_at, machine_stats,
              item_at, payload, posts, printed>>

(***************************************************************************)
(* Bounds                                                                  *)
(***************************************************************************)
MaxRequests == 2    \* requests handled by the collector in one run

MaxContainers == 2  \* containers docker_client.containers() lists in one cycle

interval == 3       \* the sampling window; 60 in get_dockerstats_metrics

MaxSeries == 7      \* length of the series given to the aggregation loops

(***************************************************************************)
(* Helpers                                                                 *)
(***************************************************************************)
None == "None"

(***************************************************************************)
(* Collector: request bodies                                               *)
(*                                                                         *)
(* A body is what req.stream.read() returns. kind says what the bytes are: *)
(* "empty" (b''), "text" (bytes json.loads cannot decode), "array" (a JSON *)
(* document that is not an object) and "object" (a JSON object mapping     *)
(* container keys to lists of records). doc is the decoded document of an  *)
(* object: a sequence of <<key, records>> pairs in document order, with    *)
(* distinct keys, as a Python dict holds them.                             *)
(***************************************************************************)
Point(m, c) == [measurement |-> m, timestamp |-> 1, tags |-> [container_name |-> c]]

\* a record whose sender already put a remote_ip tag on it
Tagged(m, c, ip) ==
    [measurement |-> m, timestamp |-> 1, tags |-> [container_name |-> c, remote_ip |-> ip]]

Records(c) == <<Point("cpu.usage", c), Point("memory.usage", c), Point("network.usage", c)>>

PayloadOne == << <<"c1", Records("c1")>> >>

PayloadTwo == << <<"c1", Records("c1")>>,
                 <<"c2", <<Tagged("cpu.usage", "c2", "6.6.6.6"), Point("memory.usage", "c2")>> >> >>

Bodies == { [kind |-> "empty",  doc |-> <<>>],
            [kind |-> "object", doc |-> <<>>],
            [kind |-> "text",   doc |-> <<>>],
            [kind |-> "array",  doc |-> <<>>],
            [kind |-> "object", doc |-> PayloadOne],
            [kind |-> "object", doc |-> PayloadTwo] }

Addrs == {"10.0.0.5", "10.0.0.6"}

\* json.loads(body.decode()): the decoded value, or a ValueError
json_loads(body) ==
    CASE body.kind = "object" -> [ok |-> TRUE,  value |-> [type |-> "dict", items |-> body.doc]]
      [] body.kind = "array"  -> [ok |-> TRUE,  value |-> [type |-> "list", items |-> <<>>]]
      [] OTHER                -> [ok |-> FALSE, value |-> [type |-> "ValueError", items |-> <<>>]]

(***************************************************************************)
(* Collector: responses                                                    *)
(***************************************************************************)
HTTP_200 == [status |-> 200, body |-> "{}", title |-> "", description |-> ""]

HTTPBadRequest ==
    [status |-> 400, body |-> "", title |-> "Empty request body",
     description |-> "A valid JSON document is required."]

\* an exception on_post does not catch: the WSGI server answers 500
HTTP_500 == [status |-> 500, body |-> "", title |-> "", description |-> ""]

(***************************************************************************)
(* Collector: MetricsCollectorResource.on_post                             *)
(***************************************************************************)
\* "if not body": the bytes read are empty
not_body_never(body) == FALSE

not_body(body) == body.kind = "empty"

\* StatHandler(...) and Process(target=handler.process, args=(entry, remote_ip)),
\* p.start(): the Process objects one request starts
SpawnPerContainer(r, entry, remote_ip) ==
    [k \in 1..Len(entry.items) |->
        [req |-> r, entry |-> [entry EXCEPT !.items = <<entry.items[k]>>],
         remote_ip |-> remote_ip, st |-> "started", i |-> 1, clients |-> 0,
         calls |-> 0, ignore_fail |-> "None", result |-> "None"]]

SpawnDedup(r, entry, remote_ip) ==
    IF \E q \in 1..Len(procs) : procs[q].entry = entry /\ procs[q].remote_ip = remote_ip
    THEN <<>>
    ELSE << [req |-> r, entry |-> entry, remote_ip |-> remote_ip, st |-> "started",
             i |-> 1, clients |-> 0, calls |-> 0, ignore_fail |-> "None", result |-> "None"] >>

Spawn(r, entry, remote_ip) ==
    << [req |-> r, entry |-> entry, remote_ip |-> remote_ip, st |-> "started",
        i |-> 1, clients |-> 0, calls |-> 0, ignore_fail |-> "None", result |-> "None"] >>

\* metric['tags']['remote_ip'] = remote_ip, for every metric of one container
tag_setdefault(records, remote_ip) ==
    [n \in 1..Len(records) |->
        [records[n] EXCEPT !.tags = records[n].tags @@ ("remote_ip" :> remote_ip)]]

tag(records, remote_ip) ==
    [n \in 1..Len(records) |->
        [records[n] EXCEPT !.tags = ("remote_ip" :> remote_ip) @@ records[n].tags]]

\* on_post that waits for the writer and answers from its result
on_post_joined(body, remote_ip) ==
    /\ Len(reqs) < MaxRequests
    /\ reqs' = Append(reqs, [body |-> body, remote_ip |-> remote_ip])
    /\ IF not_body(body)
       THEN /\ resp' = Append(resp, HTTPBadRequest)
            /\ log' = log \cup {<<"on_post", Len(reqs) + 1>>}
            /\ UNCHANGED <<procs, store>>
       ELSE IF ~json_loads(body).ok
       THEN /\ resp' = Append(resp, HTTP_500)
            /\ UNCHANGED <<procs, store, log>>
       ELSE \E ok \in BOOLEAN :
            /\ procs' = procs \o
                    << [Spawn(Len(reqs) + 1, json_loads(body).value, remote_ip)[1]
                            EXCEPT !.st = "returned", !.result = IF ok THEN "True" ELSE "False"] >>
            /\ store' = store
            /\ resp' = Append(resp, IF ok THEN HTTP_200 ELSE HTTP_500)
            /\ UNCHANGED log
    /\ UNCHANGED <<metadata_fun, sendVars>>

on_post(body, remote_ip) ==
    /\ Len(reqs) < MaxRequests
    /\ reqs' = Append(reqs, [body |-> body, remote_ip |-> remote_ip])
    /\ IF not_body(body)
       THEN \* logger.error(...); raise falcon.HTTPBadRequest(...)
            /\ resp' = Append(resp, HTTPBadRequest)
            /\ log' = log \cup {<<"on_post", Len(reqs) + 1>>}
            /\ UNCHANGED procs
       ELSE IF ~json_loads(body).ok
       THEN \* json.loads raises; nothing is started
            /\ resp' = Append(resp, HTTP_500)
            /\ UNCHANGED <<procs, log>>
       ELSE \* the Process is started and not joined; the response is fixed
            /\ procs' = procs \o Spawn(Len(reqs) + 1, json_loads(body).value, remote_ip)
            /\ resp' = Append(resp, HTTP_200)
            /\ UNCHANGED log
    /\ UNCHANGED <<metadata_fun, store, sendVars>>

(***************************************************************************)
(* Collector: StatHandler, run in the spawned Process                      *)
(***************************************************************************)
\* process that calls the callback once per container key
process_per_container(p) ==
    /\ p \in 1..Len(procs)
    /\ procs[p].st = "started"
    /\ LET q == [procs[p] EXCEPT !.clients = @ + 1, !.calls = @ + Len(procs[p].entry.items),
                                 !.ignore_fail = "False"] IN
       IF metadata_fun = "injected" \/ Len(q.entry.items) = 0
       THEN /\ procs' = [procs EXCEPT ![p] = [q EXCEPT !.st = "returned", !.result = "injected"]]
            /\ UNCHANGED log
       ELSE /\ procs' = [procs EXCEPT ![p] = [q EXCEPT !.st = "running"]]
            /\ UNCHANGED log
    /\ UNCHANGED <<metadata_fun, reqs, resp, store, sendVars>>

\* StatHandler.process up to the first store write of _get_metadata: a fresh
\* InfluxDBClient, then one call of self._get_metadata(entry, remote_ip,
\* influx_client, ignore_fail=False). An injected metadata_fun is outside the
\* model: it is called and returns. The default one fails on entry.keys()
\* when the document is no dict, and returns True at once for an empty dict.
process(p) ==
    /\ p \in 1..Len(procs)
    /\ procs[p].st = "started"
    /\ LET q == [procs[p] EXCEPT !.clients = @ + 1, !.calls = @ + 1, !.ignore_fail = "False"] IN
       IF metadata_fun = "injected"
       THEN /\ procs' = [procs EXCEPT ![p] = [q EXCEPT !.st = "returned", !.result = "injected"]]
            /\ UNCHANGED log
       ELSE IF q.entry.type # "dict"
       THEN \* AttributeError, caught: logger.error(e); return ignore_fail
            /\ procs' = [procs EXCEPT ![p] =
                            [q EXCEPT !.st = "returned", !.result = q.ignore_fail]]
            /\ log' = log \cup {<<"writer", p>>}
       ELSE IF Len(q.entry.items) = 0
       THEN /\ procs' = [procs EXCEPT ![p] = [q EXCEPT !.st = "returned", !.result = "True"]]
            /\ UNCHANGED log
       ELSE /\ procs' = [procs EXCEPT ![p] = [q EXCEPT !.st = "running"]]
            /\ UNCHANGED log
    /\ UNCHANGED <<metadata_fun, reqs, resp, store, sendVars>>

\* write_points whose except clause passes in silence and reports success
write_points_silent(p, ok) ==
    /\ p \in 1..Len(procs)
    /\ procs[p].st = "running"
    /\ LET q == procs[p]
           container == q.entry.items[q.i][1]
           points == tag(q.entry.items[q.i][2], q.remote_ip) IN
       /\ store' = Append(store, [pid |-> p, container |-> container,
                                  points |-> points, ok |-> ok])
       /\ IF ~ok \/ q.i = Len(q.entry.items)
          THEN procs' = [procs EXCEPT ![p] = [q EXCEPT !.st = "returned", !.result = "True"]]
          ELSE procs' = [procs EXCEPT ![p] = [q EXCEPT !.i = @ + 1]]
       /\ UNCHANGED log
    /\ UNCHANGED <<metadata_fun, reqs, resp, sendVars>>

\* write_points with the try inside the loop: a failed write is logged and
\* the loop goes on to the next container
write_points_continue(p, ok) ==
    /\ p \in 1..Len(procs)
    /\ procs[p].st = "running"
    /\ LET q == procs[p]
           container == q.entry.items[q.i][1]
           points == tag(q.entry.items[q.i][2], q.remote_ip) IN
       /\ store' = Append(store, [pid |-> p, container |-> container,
                                  points |-> points, ok |-> ok])
       /\ log' = IF ok THEN log ELSE log \cup {<<"writer", p>>}
       /\ IF q.i = Len(q.entry.items)
          THEN procs' = [procs EXCEPT ![p] = [q EXCEPT !.st = "returned",
                                                       !.result = IF ok THEN "True"
                                                                  ELSE q.ignore_fail]]
          ELSE procs' = [procs EXCEPT ![p] = [q EXCEPT !.i = @ + 1]]
    /\ UNCHANGED <<metadata_fun, reqs, resp, sendVars>>

\* One turn of "for container in entry.keys()" in _get_metadata_default: every
\* metric of the container is tagged, then influx_client.write_points is
\* called with the container's list. The store accepts the batch or the call
\* raises; the exception ends the loop: logger.error(e); return ignore_fail.
write_points(p, ok) ==
    /\ p \in 1..Len(procs)
    /\ procs[p].st = "running"
    /\ LET q == procs[p]
           container == q.entry.items[q.i][1]
           points == tag(q.entry.items[q.i][2], q.remote_ip) IN
       /\ store' = Append(store, [pid |-> p, container |-> container,
                                  points |-> points, ok |-> ok])
       /\ IF ~ok
          THEN /\ procs' = [procs EXCEPT ![p] =
                               [q EXCEPT !.st = "returned", !.result = q.ignore_fail]]
               /\ log' = log \cup {<<"writer", p>>}
          ELSE IF q.i = Len(q.entry.items)
          THEN /\ procs' = [procs EXCEPT ![p] = [q EXCEPT !.st = "returned", !.result = "True"]]
               /\ UNCHANGED log
          ELSE /\ procs' = [procs EXCEPT ![p] = [q EXCEPT !.i = @ + 1]]
               /\ UNCHANGED log
    /\ UNCHANGED <<metadata_fun, reqs, resp, sendVars>>

(***************************************************************************)
(* Sender: numbers                                                         *)
(*                                                                         *)
(* Python's "/" on the values the aggregator divides is float division. A  *)
(* float is modelled as the exact fraction n/d in lowest terms, d > 0.     *)
(* NoneNum stands for None in the place of a number (the unset min/max).   *)
(***************************************************************************)
Abs(x) == IF x < 0 THEN -x ELSE x

RECURSIVE GCD(_, _)
GCD(a, b) == IF b = 0 THEN a ELSE GCD(b, a % b)

Num(n, d) == LET g == GCD(Abs(n), d) IN [n |-> n \div g, d |-> d \div g]

NoneNum == [n |-> 0, d |-> 0]

IsNone(x) == x.d = 0

NumAdd(x, y) == Num(x.n * y.d + y.n * x.d, x.d * y.d)

NumLt(x, y) == x.n * y.d < y.n * x.d

\* A float is a binary64: sign * m * 2^exp with m of 53 bits, or zero. m is
\* held as two limbs, m = hi * Limb + lo with Limb <= hi < 2 * Limb and
\* lo < Limb. The readings are whole bytes, far below 2^53, so a reading in
\* kb and a sum of such readings are floats held exactly (the fractions
\* above); the quotient of a sum by the length of the series is rounded.
Limb == 2^26

FloatZero == [sign |-> 0, hi |-> 0, lo |-> 0, exp |-> 0]

RECURSIVE Log2(_)
Log2(d) == IF d = 1 THEN 0 ELSE 1 + Log2(d \div 2)

\* the least k >= from with (a * 2^k) \div m of a full top limb
RECURSIVE Lead(_, _, _)
Lead(a, m, from) == IF (a * 2^from) \div m >= Limb THEN from ELSE Lead(a, m, from + 1)

\* the float of 53 bits hi, lo, one unit in the last place greater when up
Rounded(sign, hi, lo, exp, up) ==
    IF ~up THEN [sign |-> sign, hi |-> hi, lo |-> lo, exp |-> exp]
    ELSE IF lo + 1 < Limb THEN [sign |-> sign, hi |-> hi, lo |-> lo + 1, exp |-> exp]
    ELSE IF hi + 1 < 2 * Limb THEN [sign |-> sign, hi |-> hi + 1, lo |-> 0, exp |-> exp]
    ELSE [sign |-> sign, hi |-> Limb, lo |-> 0, exp |-> exp + 1]

\* x / m for a float x held exactly and an int m > 0: the quotient by long
\* division, a limb at a time, rounded to the nearest float, a tie to even
FloatDiv(x, m) ==
    IF x.n = 0 THEN FloatZero
    ELSE LET a == Abs(x.n)
             k == Lead(a, m, 0)
             q1 == (a * 2^k) \div m
             r1 == (a * 2^k) % m
             q2 == (r1 * Limb) \div m
             r2 == (r1 * Limb) % m
             up == 2 * r2 > m \/ (2 * r2 = m /\ q2 % 2 = 1) IN
         Rounded(IF x.n < 0 THEN -1 ELSE 1, q1, q2, 0 - (k + 26 + Log2(x.d)), up)

\* float(x) of a value held exactly
Float(x) == FloatDiv(x, 1)

\* f * m, exactly, for a float f and an int m > 0: limbs of f.exp
FloatTimes(f, m) ==
    LET low == f.lo * m IN
    [hi |-> f.hi * m + low \div Limb, lo |-> low % Limb]

\* the least t with hi \div 2^t below 2 * Limb
RECURSIVE Excess(_, _)
Excess(hi, t) == IF hi \div 2^t < 2 * Limb THEN t ELSE Excess(hi, t + 1)

\* f * m as python evaluates it: the product rounded to the nearest float
FloatMul(f, m) ==
    IF f.sign = 0 THEN FloatZero
    ELSE LET prod == FloatTimes(f, m)
             t == Excess(prod.hi, 0)
             hi == prod.hi \div 2^t
             lo == (prod.hi % 2^t) * (Limb \div 2^t) + prod.lo \div 2^t
             dropped == prod.lo % 2^t
             up == 2 * dropped > 2^t \/ (2 * dropped = 2^t /\ lo % 2 = 1) IN
         Rounded(f.sign, hi, lo, f.exp + t, up)

\* f < g
FloatLt(f, g) ==
    LET below(x, y) == \/ x.exp < y.exp
                       \/ x.exp = y.exp /\ x.hi < y.hi
                       \/ x.exp = y.exp /\ x.hi = y.hi /\ x.lo < y.lo IN
    \/ f.sign < g.sign
    \/ f.sign = 1 /\ g.sign = 1 /\ below(f, g)
    \/ f.sign = -1 /\ g.sign = -1 /\ below(g, f)

(***************************************************************************)
(* Sender: container names and the filter                                  *)
(*                                                                         *)
(* A name is a sequence of tokens, "/" being a token of its own, so that   *)
(* name.replace('/', '') is the removal of the "/" tokens. Docker reports  *)
(* every name of a container with a leading "/".                           *)
(***************************************************************************)
UUIDName == "f47ac10b-58cc-1ef1-b532-0242ac130003"

Slash(word) == <<"/", word>>

replace_slash(name) == SelectSeq(name, LAMBDA t : t # "/")

\* uuid.UUID(name, version=1) returns for the strings that are 32 hex
\* digits once "urn:", "uuid:", braces and hyphens are removed, and raises
\* ValueError for the others
is_uuid(name) == Len(name) = 1 /\ name[1] = UUIDName

\* 'sender' in value['aliases']
sender_in(aliases) == \E a \in 1..Len(aliases) : aliases[a] = <<"sender">>

match_all_but_sender(name, value) == ~sender_in(value.aliases)

match_all(name, value) == TRUE

match_on_uuid(name, value) ==
    IF sender_in(value.aliases) THEN FALSE ELSE is_uuid(name)

\* the call match_container_name(name, value) of the function the module
\* bound at load
call_match(name, value) ==
    CASE match_container_name = "match_all" -> match_all(name, value)
      [] match_container_name = "match_on_uuid" -> match_on_uuid(name, value)
      [] match_container_name = "match_all_but_sender" -> match_all_but_sender(name, value)

Strategies == {"match_all", "match_on_uuid", "match_all_but_sender"}

\* the values given to MATCH_TYPE: the three the script names, and another
MatchTypes == {"ALL", "UUID", "NO_CADVISOR", "SOME_OTHER"}

NoExc == [type |-> "None", at |-> "None"]

(***************************************************************************)
(* Sender: module load, lines 86-92                                        *)
(*                                                                         *)
(* 'ALL' binds match_all and 'UUID' binds match_on_uuid. 'NO_CADVISOR'     *)
(* evaluates the name match_all_but_cadvisor, which the module never       *)
(* defines (the function is called match_all_but_sender): NameError while  *)
(* the module loads. Any other value leaves match_container_name unbound.  *)
(***************************************************************************)
select_match(match_type_name) ==
    CASE match_type_name = "ALL" -> [bound |-> "match_all", raised |-> NoExc]
      [] match_type_name = "UUID" -> [bound |-> "match_on_uuid", raised |-> NoExc]
      [] match_type_name = "NO_CADVISOR" ->
            [bound |-> None, raised |-> [type |-> "NameError", at |-> "load"]]
      [] OTHER -> [bound |-> None, raised |-> NoExc]

load ==
    /\ pc = "load"
    /\ match_container_name' = select_match(MATCH_TYPE).bound
    /\ exc' = select_match(MATCH_TYPE).raised
    /\ pc' = IF select_match(MATCH_TYPE).raised = NoExc THEN "containers" ELSE "raised"
    /\ UNCHANGED <<MATCH_TYPE, processes, p_at, machine_stats, item_at, payload, posts,
                   printed, collVars>>

(***************************************************************************)
(* Sender: the stats streams                                               *)
(*                                                                         *)
(* docker_client.stats(Id) yields one JSON document per second. The n-th   *)
(* document of a stream is fixed by the stream's kind: "rising" has the    *)
(* monotonic counters of a container that keeps running, "reset" has       *)
(* counters that drop after the first reading, as after a restart.         *)
(***************************************************************************)
StreamKinds == {"rising", "reset"}

counter(kind, n, unit) ==
    IF kind = "rising" THEN unit * n ELSE IF n = 1 THEN unit * 5 ELSE unit * (n - 1)

all_stats(kind, n) ==
    [read |-> 60000 + 1000 * n + 500,
     memory_stats |-> [usage |-> IF kind = "rising" THEN 1024 * n
                                 ELSE IF n = 1 THEN 2048 ELSE 512 * (n - 2)],
     cpu_stats |-> [cpu_usage |-> [total_usage |-> counter(kind, n, 100)],
                    system_cpu_usage |-> 1000 * n],
     network |-> [tx_bytes |-> counter(kind, n, 2048), rx_bytes |-> counter(kind, n, 512),
                  tx_packets |-> counter(kind, n, 2), rx_packets |-> counter(kind, n, 3),
                  tx_errors |-> counter(kind, n, 1), rx_errors |-> 0,
                  tx_dropped |-> 0, rx_dropped |-> counter(kind, n, 1)],
     blkio_stats |-> [io_service_bytes_recursive |-> <<>>]]

wanted_metrics == {"read", "memory_stats", "cpu_stats", "network"}

\* {key: all_stats[key] for key in set(wanted_metrics) & set(all_stats.keys())}
select_wanted(doc) == [f \in wanted_metrics \cap DOMAIN doc |-> doc[f]]

\* the value of collected_stats: None, or a list
PyNone == [isNone |-> TRUE, items |-> <<>>]

PyList(items) == [isNone |-> FALSE, items |-> items]

(***************************************************************************)
(* Sender: get_dockerstats_metrics, the sampling processes                 *)
(***************************************************************************)
\* the Names lists docker_client.containers() reports
NamesChoices == { <<Slash(UUIDName)>>,
                  <<Slash("redis-cache")>>,
                  <<Slash("sender"), <<"/", "collector", "/", "sender">> >> }

\* lines 151-160: one Process per container docker_client.containers() lists,
\* each given the container's stats stream, its Id and its Names
get_containers ==
    /\ pc = "containers"
    /\ \E n \in 0..MaxContainers :
       \E names \in [1..n -> NamesChoices], kinds \in [1..n -> StreamKinds] :
          /\ processes' = [i \in 1..n |->
                              [Id |-> i, Names |-> names[i], stream |-> kinds[i],
                               st |-> "created", collected_stats |-> PyList(<<>>)]]
          /\ pc' = IF n = 0 THEN "send" ELSE "sampling"
    /\ p_at' = 1
    /\ item_at' = 1
    /\ machine_stats' = <<>>
    /\ payload' = <<>>
    /\ UNCHANGED <<MATCH_TYPE, match_container_name, exc, posts, printed, collVars>>

\* line 162, p.start(): the loop starts process p_at, and the next line joins
\* it before the loop comes to process p_at + 1
start(p) ==
    /\ pc = "sampling"
    /\ p_at = p
    /\ processes[p].st = "created"
    /\ processes' = [processes EXCEPT ![p].st = "running"]
    /\ UNCHANGED <<MATCH_TYPE, match_container_name, pc, exc, p_at, machine_stats, item_at,
                   payload, posts, printed, collVars>>

\* machine_stats[key] = value on a dict kept in insertion order
dict_set(d, key, value) ==
    IF \E i \in 1..Len(d) : d[i][1] = key
    THEN [i \in 1..Len(d) |-> IF d[i][1] = key THEN <<key, value>> ELSE d[i]]
    ELSE Append(d, <<key, value>>)

\* get_stats_from_daemon that breaks on the time alone, not on the count
get_stats_from_daemon_uncounted(p, item, timeup) ==
    /\ processes[p].st = "running"
    /\ LET me == processes[p]
           n == Len(me.collected_stats.items)
           collected == CASE item = "stat" ->
                                PyList(Append(me.collected_stats.items,
                                              select_wanted(all_stats(me.stream, n + 1))))
                          [] item = "StopIteration" -> me.collected_stats
                          [] item = "error" -> PyNone
           leaves == item # "stat" \/ timeup IN
       /\ item = "stat" \/ ~timeup
       /\ processes' = [processes EXCEPT ![p] =
                           [me EXCEPT !.collected_stats = collected,
                                      !.st = IF leaves THEN "terminated" ELSE "running"]]
       /\ machine_stats' =
             IF leaves
             THEN dict_set(machine_stats, me.Id, [aliases |-> me.Names, stats |-> collected])
             ELSE machine_stats
    /\ UNCHANGED <<MATCH_TYPE, match_container_name, pc, exc, p_at, item_at, payload, posts,
                   printed, collVars>>

\* get_stats_from_daemon, one turn of "for container_stat in stats_obj", run
\* in the child Process p. item is what the stream does next: it yields a
\* document ("stat"), ends ("StopIteration") or raises ("error"); timeup is
\* time.time() >= end_time. The loop is left by the break, by the end of the
\* stream or by the exception, which sets collected_stats to None; the
\* finally clause then stores the result in machine_stats.
get_stats_from_daemon(p, item, timeup) ==
    /\ processes[p].st = "running"
    /\ LET me == processes[p]
           n == Len(me.collected_stats.items)
           collected == CASE item = "stat" ->
                                PyList(Append(me.collected_stats.items,
                                              select_wanted(all_stats(me.stream, n + 1))))
                          [] item = "StopIteration" -> me.collected_stats
                          [] item = "error" -> PyNone
           leaves == \/ item # "stat"
                     \/ Len(collected.items) >= interval
                     \/ timeup IN
       /\ item = "stat" \/ ~timeup
       /\ processes' = [processes EXCEPT ![p] =
                           [me EXCEPT !.collected_stats = collected,
                                      !.st = IF leaves THEN "terminated" ELSE "running"]]
       /\ machine_stats' =
             IF leaves
             THEN dict_set(machine_stats, me.Id, [aliases |-> me.Names, stats |-> collected])
             ELSE machine_stats
    /\ UNCHANGED <<MATCH_TYPE, match_container_name, pc, exc, p_at, item_at, payload, posts,
                   printed, collVars>>

\* a loop that goes on without waiting for process p to end
join_nowait(p) ==
    /\ pc = "sampling"
    /\ p_at = p
    /\ processes[p].st \in {"running", "terminated"}
    /\ p_at' = p_at + 1
    /\ pc' = IF p < Len(processes) THEN "sampling"
             ELSE IF Len(machine_stats) = 0 THEN "send" ELSE "aggregate"
    /\ UNCHANGED <<MATCH_TYPE, match_container_name, exc, processes, machine_stats, item_at,
                   payload, posts, printed, collVars>>

\* line 163, p.join(): returns once process p_at has ended; after the last one
\* the loop over machine_stats.items() begins
join(p) ==
    /\ pc = "sampling"
    /\ p_at = p
    /\ processes[p].st = "terminated"
    /\ processes' = [processes EXCEPT ![p].st = "joined"]
    /\ p_at' = p_at + 1
    /\ pc' = IF p < Len(processes) THEN "sampling"
             ELSE IF Len(machine_stats) = 0 THEN "send" ELSE "aggregate"
    /\ UNCHANGED <<MATCH_TYPE, match_container_name, exc, machine_stats, item_at, payload,
                   posts, printed, collVars>>

(***************************************************************************)
(* Sender: get_dockerstats_metrics, the aggregation of one series          *)
(***************************************************************************)
\* total_min_max with "not s_min" for "s_min == None": a minimum or a maximum
\* of zero is taken for an unset one
total_min_max_falsy(stat, s_total, s_min, s_max) ==
    [total |-> NumAdd(s_total, stat),
     min |-> IF IsNone(s_min) \/ s_min.n = 0 \/ NumLt(stat, s_min) THEN stat ELSE s_min,
     max |-> IF IsNone(s_max) \/ s_max.n = 0 \/ NumLt(s_max, stat) THEN stat ELSE s_max]

total_min_max(stat, s_total, s_min, s_max) ==
    [total |-> NumAdd(s_total, stat),
     min |-> IF IsNone(s_min) \/ NumLt(stat, s_min) THEN stat ELSE s_min,
     max |-> IF IsNone(s_max) \/ NumLt(s_max, stat) THEN stat ELSE s_max]

\* lines 186-199: total_memory, min_memory, max_memory after the first n stats
RECURSIVE memory_fold(_, _)
memory_fold(stats, n) ==
    IF n = 0
    THEN [total |-> Num(0, 1), min |-> NoneNum, max |-> NoneNum]
    ELSE LET before == memory_fold(stats, n - 1)
             memory_kb == Num(stats[n].memory_stats.usage, 1024) IN
         total_min_max(memory_kb, before.total, before.min, before.max)

\* lines 207-213
cpu_usage(stats) ==
    LET first == stats[1]
        last == stats[Len(stats)] IN
    [total |-> last.cpu_stats.cpu_usage.total_usage - first.cpu_stats.cpu_usage.total_usage]

\* lines 214-219
memory_usage(stats) ==
    LET m == memory_fold(stats, Len(stats)) IN
    [total |-> m.total, ave |-> FloatDiv(m.total, Len(stats)), max |-> m.max, min |-> m.min]

\* network_usage with every difference clamped at zero
network_usage_clamped(stats) ==
    LET first == stats[1].network
        last == stats[Len(stats)].network
        clamp(x) == IF x < 0 THEN 0 ELSE x IN
    [tx_kb |-> Num(clamp(last.tx_bytes - first.tx_bytes), 1024),
     rx_kb |-> Num(clamp(last.rx_bytes - first.rx_bytes), 1024),
     tx_packets |-> clamp(last.tx_packets - first.tx_packets),
     rx_packets |-> clamp(last.rx_packets - first.rx_packets),
     tx_errors |-> clamp(last.tx_errors - first.tx_errors),
     rx_errors |-> clamp(last.rx_errors - first.rx_errors),
     tx_dropped |-> clamp(last.tx_dropped - first.tx_dropped),
     rx_dropped |-> clamp(last.rx_dropped - first.rx_dropped)]

\* lines 220-229
network_usage(stats) ==
    LET first == stats[1].network
        last == stats[Len(stats)].network IN
    [tx_kb |-> Num(last.tx_bytes - first.tx_bytes, 1024),
     rx_kb |-> Num(last.rx_bytes - first.rx_bytes, 1024),
     tx_packets |-> last.tx_packets - first.tx_packets,
     rx_packets |-> last.rx_packets - first.rx_packets,
     tx_errors |-> last.tx_errors - first.tx_errors,
     rx_errors |-> last.rx_errors - first.rx_errors,
     tx_dropped |-> last.tx_dropped - first.tx_dropped,
     rx_dropped |-> last.rx_dropped - first.rx_dropped]

format_data(measurement_name, container, timestamp, fields) ==
    [measurement |-> measurement_name, timestamp |-> timestamp,
     tags |-> [container_name |-> container], fields |-> fields]

\* line 179: the 'read' time of the first stat (kept in milliseconds here),
\* as whole seconds
first_timestamp(stats) == stats[1].read \div 1000

\* lines 230-232: the three records of one container
records_of(container_name, stats) ==
    LET ts == first_timestamp(stats) IN
    << format_data("cpu.usage", container_name, ts, cpu_usage(stats)),
       format_data("memory.usage", container_name, ts, memory_usage(stats)),
       format_data("network.usage", container_name, ts, network_usage(stats)) >>

\* lines 168-172: the aliases the filter accepts, by position
matching(value) ==
    {a \in 1..Len(value.aliases) : call_match(replace_slash(value.aliases[a]), value)}

\* One turn of "for key, value in machine_stats.items()", lines 165-232. The
\* filter is called on the first alias: NameError when match_container_name
\* was left unbound. A container no alias of which matches is skipped. For a
\* matched one, value['stats'][0] raises TypeError when stats is None and
\* IndexError when the list is empty; nothing in the function catches them.
aggregate ==
    /\ pc = "aggregate"
    /\ item_at <= Len(machine_stats)
    /\ LET value == machine_stats[item_at][2]
           next_pc == IF item_at = Len(machine_stats) THEN "send" ELSE "aggregate" IN
       IF Len(value.aliases) > 0 /\ match_container_name = None
       THEN /\ pc' = "raised"
            /\ exc' = [type |-> "NameError", at |-> "aggregate"]
            /\ UNCHANGED <<item_at, payload>>
       ELSE IF matching(value) = {}
       THEN /\ pc' = next_pc
            /\ item_at' = item_at + 1
            /\ UNCHANGED <<exc, payload>>
       ELSE IF value.stats.isNone
       THEN /\ pc' = "raised"
            /\ exc' = [type |-> "TypeError", at |-> "aggregate"]
            /\ UNCHANGED <<item_at, payload>>
       ELSE IF Len(value.stats.items) = 0
       THEN /\ pc' = "raised"
            /\ exc' = [type |-> "IndexError", at |-> "aggregate"]
            /\ UNCHANGED <<item_at, payload>>
       ELSE LET first == CHOOSE a \in matching(value) : \A b \in matching(value) : a <= b
                container_name == replace_slash(value.aliases[first]) IN
            /\ payload' = dict_set(payload, container_name,
                                   records_of(container_name, value.stats.items))
            /\ pc' = next_pc
            /\ item_at' = item_at + 1
            /\ UNCHANGED exc
    /\ UNCHANGED <<MATCH_TYPE, match_container_name, processes, p_at, machine_stats, posts,
                   printed, collVars>>

(***************************************************************************)
(* Sender: get_cadvisor_metrics, the aggregation of one series             *)
(*                                                                         *)
(* cadvisor reports a container's aliases without docker's leading "/",    *)
(* and a stats document has 'timestamp', 'cpu', 'memory' and 'network'.    *)
(***************************************************************************)
\* lines 270-284: total_memory, min_memory, max_memory after the first n stats
RECURSIVE cadvisor_memory_fold(_, _)
cadvisor_memory_fold(stats, n) ==
    IF n = 0
    THEN [total |-> Num(0, 1), min |-> NoneNum, max |-> NoneNum]
    ELSE LET before == cadvisor_memory_fold(stats, n - 1)
             memory_kb == Num(stats[n].memory.usage, 1024) IN
         total_min_max(memory_kb, before.total, before.min, before.max)

\* lines 291-302
cadvisor_cpu_usage(stats) ==
    LET first == stats[1]
        last == stats[Len(stats)] IN
    [total |-> last.cpu.usage.total - first.cpu.usage.total]

\* lines 303-308
cadvisor_memory_usage(stats) ==
    LET m == cadvisor_memory_fold(stats, Len(stats)) IN
    [total |-> m.total, ave |-> FloatDiv(m.total, Len(stats)), max |-> m.max, min |-> m.min]

\* lines 309-318: the same keys and the same arithmetic as on the docker path
cadvisor_network_usage(stats) == network_usage(stats)

\* lines 263 and 320-322
cadvisor_records_of(container_name, stats) ==
    LET ts == stats[1].timestamp \div 1000 IN
    << format_data("cpu.usage", container_name, ts, cadvisor_cpu_usage(stats)),
       format_data("memory.usage", container_name, ts, cadvisor_memory_usage(stats)),
       format_data("network.usage", container_name, ts, cadvisor_network_usage(stats)) >>

\* lines 252-256: the aliases the filter accepts, by position; the name is
\* given to the filter as it is
cadvisor_matching(value) ==
    {a \in 1..Len(value.aliases) : call_match(value.aliases[a], value)}

\* One turn of the second "for key, value in r.json().items()", lines 249-322
cadvisor_aggregate ==
    /\ pc = "cadvisor_aggregate"
    /\ item_at <= Len(machine_stats)
    /\ LET value == machine_stats[item_at][2]
           next_pc == IF item_at = Len(machine_stats) THEN "send" ELSE "cadvisor_aggregate" IN
       IF Len(value.aliases) > 0 /\ match_container_name = None
       THEN /\ pc' = "raised"
            /\ exc' = [type |-> "NameError", at |-> "aggregate"]
            /\ UNCHANGED <<item_at, payload>>
       ELSE IF cadvisor_matching(value) = {}
       THEN /\ pc' = next_pc
            /\ item_at' = item_at + 1
            /\ UNCHANGED <<exc, payload>>
       ELSE IF Len(value.stats.items) = 0
       THEN /\ pc' = "raised"
            /\ exc' = [type |-> "IndexError", at |-> "aggregate"]
            /\ UNCHANGED <<item_at, payload>>
       ELSE LET first == CHOOSE a \in cadvisor_matching(value) :
                            \A b \in cadvisor_matching(value) : a <= b
                container_name == value.aliases[first] IN
            /\ payload' = dict_set(payload, container_name,
                                   cadvisor_records_of(container_name, value.stats.items))
            /\ pc' = next_pc
            /\ item_at' = item_at + 1
            /\ UNCHANGED exc
    /\ UNCHANGED <<MATCH_TYPE, match_container_name, processes, p_at, machine_stats, posts,
                   printed, collVars>>

(***************************************************************************)
(* Sender: send                                                            *)
(***************************************************************************)
\* json.dumps(data): the payload dict as a JSON object, keys in dict order
json_dumps(data) == [kind |-> "object", doc |-> data]

\* what requests.post does: a response with a status, or requests.Timeout
\* after the 10 s given
PostResults == {[kind |-> "response", status |-> s] : s \in {200, 204, 400, 500}}
               \cup {[kind |-> "Timeout", status |-> 0]}

\* post_result.raise_for_status() raises HTTPError for 4xx and 5xx
raise_for_status_never(status) == FALSE

raise_for_status(status) == status >= 400 /\ status < 600

\* send that posts again after a failure
send_retry(result) ==
    /\ pc = "send"
    /\ posts' = IF result.kind = "Timeout" \/ raise_for_status(result.status)
                THEN posts \o << [data |-> json_dumps(payload), result |-> result],
                                 [data |-> json_dumps(payload), result |-> result] >>
                ELSE Append(posts, [data |-> json_dumps(payload), result |-> result])
    /\ pc' = "done"
    /\ printed' = TRUE
    /\ UNCHANGED <<MATCH_TYPE, match_container_name, exc, processes, p_at, machine_stats, item_at,
                   payload, collVars>>

\* line 233 and lines 341-348: one requests.post of the whole payload, then
\* raise_for_status, then the print. Neither exception is caught anywhere:
\* it ends the script.
send(result) ==
    /\ pc = "send"
    /\ posts' = Append(posts, [data |-> json_dumps(payload), result |-> result])
    /\ IF result.kind = "Timeout"
       THEN /\ pc' = "raised"
            /\ exc' = [type |-> "Timeout", at |-> "send"]
            /\ UNCHANGED printed
       ELSE IF raise_for_status(result.status)
       THEN /\ pc' = "raised"
            /\ exc' = [type |-> "HTTPError", at |-> "send"]
            /\ UNCHANGED printed
       ELSE /\ pc' = "done"
            /\ printed' = TRUE
            /\ UNCHANGED exc
    /\ UNCHANGED <<MATCH_TYPE, match_container_name, processes, p_at, machine_stats, item_at,
                   payload, collVars>>

(***************************************************************************)
(* Specifications                                                          *)
(***************************************************************************)
SenderOff ==
    /\ MATCH_TYPE = "ALL"
    /\ match_container_name = None
    /\ pc = "off"
    /\ exc = NoExc
    /\ processes = <<>>
    /\ p_at = 1
    /\ machine_stats = <<>>
    /\ item_at = 1
    /\ payload = <<>>
    /\ posts = <<>>
    /\ printed = FALSE

CollOff ==
    /\ metadata_fun = "default"
    /\ reqs = <<>>
    /\ resp = <<>>
    /\ procs = <<>>
    /\ store = <<>>
    /\ log = {}

\* the script starts with MATCH_TYPE as the environment gives it
SenderInit ==
    /\ MATCH_TYPE \in MatchTypes
    /\ match_container_name = None
    /\ pc = "load"
    /\ exc = NoExc
    /\ processes = <<>>
    /\ p_at = 1
    /\ machine_stats = <<>>
    /\ item_at = 1
    /\ payload = <<>>
    /\ posts = <<>>
    /\ printed = FALSE

CollInit ==
    /\ metadata_fun \in {"default", "injected"}
    /\ reqs = <<>>
    /\ resp = <<>>
    /\ procs = <<>>
    /\ store = <<>>
    /\ log = {}

vars == <<collVars, sendVars>>

Init == CollInit /\ SenderOff

Next ==
    \/ \E body \in Bodies, remote_ip \in Addrs : on_post(body, remote_ip)
    \/ \E p \in 1..Len(procs) : process(p)
    \/ \E p \in 1..Len(procs), ok \in BOOLEAN : write_points(p, ok)

Spec == Init /\ [][Next]_vars

SenderStart == SenderInit /\ CollOff

SenderNext ==
    \/ load
    \/ get_containers
    \/ \E p \in 1..Len(processes) : start(p)
    \/ \E p \in 1..Len(processes), item \in {"stat", "StopIteration", "error"},
          timeup \in BOOLEAN : get_stats_from_daemon(p, item, timeup)
    \/ \E p \in 1..Len(processes) : join(p)
    \/ aggregate
    \/ \E result \in PostResults : send(result)

SenderSpec == SenderStart /\ [][SenderNext]_vars

(***************************************************************************)
(* The aggregation loops on given series                                   *)
(*                                                                         *)
(* AggregatorSpec starts each loop at a machine_stats of one container     *)
(* whose series is given: up to MaxSeries readings, each one of Readings,  *)
(* with the filter bound to any of the three functions the module defines. *)
(* The loop turn and send then run as in the script. Readings has a        *)
(* negative, a zero and a positive memory reading, and counters that go    *)
(* down when a smaller reading follows a larger one.                       *)
(***************************************************************************)
Readings == { [mem |-> -2048, cnt |-> 7], [mem |-> 0, cnt |-> 0], [mem |-> 31744, cnt |-> 3] }

SeriesOf(len) == [1..len -> Readings]

network_counters(v) ==
    [tx_bytes |-> 2048 * v.cnt, rx_bytes |-> 512 * v.cnt,
     tx_packets |-> 2 * v.cnt, rx_packets |-> 3 * v.cnt,
     tx_errors |-> v.cnt, rx_errors |-> 0,
     tx_dropped |-> 0, rx_dropped |-> v.cnt]

\* a document of the docker stream, after select_wanted
docker_stat(v) ==
    [read |-> 60500,
     memory_stats |-> [usage |-> v.mem],
     cpu_stats |-> [cpu_usage |-> [total_usage |-> 100 * v.cnt],
                    system_cpu_usage |-> 1000 * v.cnt],
     network |-> network_counters(v)]

\* a document of the list cadvisor reports
cadvisor_stat(v) ==
    [timestamp |-> 60500,
     cpu |-> [usage |-> [total |-> 100 * v.cnt], load_average |-> 0],
     memory |-> [usage |-> v.mem],
     network |-> network_counters(v)]

\* the aliases cadvisor reports for the containers of NamesChoices
CadvisorAliases == { <<<<UUIDName>>, <<"id1">>>>,
                     <<<<"redis-cache">>>>,
                     <<<<"sender">>, <<"id3">>>> }

AggregatorInit ==
    /\ match_container_name \in Strategies
    /\ MATCH_TYPE = CASE match_container_name = "match_all" -> "ALL"
                      [] match_container_name = "match_on_uuid" -> "UUID"
                      [] OTHER -> "NO_CADVISOR"
    /\ \E len \in 1..MaxSeries : \E series \in SeriesOf(len) :
          \/ /\ pc = "aggregate"
             /\ \E names \in NamesChoices :
                   machine_stats = << <<1, [aliases |-> names,
                                            stats |-> PyList([n \in 1..len |->
                                                                docker_stat(series[n])])]>> >>
          \/ /\ pc = "cadvisor_aggregate"
             /\ \E aliases \in CadvisorAliases :
                   machine_stats = << <<1, [aliases |-> aliases,
                                            stats |-> PyList([n \in 1..len |->
                                                                cadvisor_stat(series[n])])]>> >>
    /\ exc = NoExc
    /\ processes = <<>>
    /\ p_at = 1
    /\ item_at = 1
    /\ payload = <<>>
    /\ posts = <<>>
    /\ printed = FALSE

AggregatorStart == AggregatorInit /\ CollOff

AggregatorNext ==
    \/ aggregate
    \/ cadvisor_aggregate
    \/ \E result \in PostResults : send(result)

AggregatorSpec == AggregatorStart /\ [][AggregatorNext]_vars

(***************************************************************************)
(* Properties of the collector, checked under Spec                         *)
(***************************************************************************)
\* the Process objects started for request r
ProcsOf(r) == {p \in 1..Len(procs) : procs[p].req = r}

\* the write_points calls made by process p for the container key c
WritesOf(p, c) == {w \in 1..Len(store) : store[w].pid = p /\ store[w].container = c}

\* C1: a POST whose body is empty is answered in on_post itself with a 400
\* that carries a title and a description; no Process is started for it and
\* no write_points call is made for it.
C1_EmptyBodyRejected ==
    /\ Len(resp) = Len(reqs)
    /\ \A r \in 1..Len(reqs) :
          reqs[r].body.kind = "empty" =>
             /\ resp[r].status = 400
             /\ resp[r].title # ""
             /\ resp[r].description # ""
             /\ ProcsOf(r) = {}
             /\ \A w \in 1..Len(store) : procs[store[w].pid].req # r

\* an empty body was rejected in a run in which another request's writer
\* wrote to the store
C1_Witness ==
    /\ \E r \in 1..Len(reqs) : reqs[r].body.kind = "empty" /\ resp[r].status = 400
    /\ \E w \in 1..Len(store) : store[w].ok

\* C2, as stated: a valid payload with two container keys is answered 200
\* with body {} and has exactly two writer dispatches, one per container key.
C2_DispatchPerContainerKey ==
    \A r \in 1..Len(reqs) :
       (reqs[r].body.kind = "object" /\ Len(reqs[r].body.doc) = 2) =>
          /\ resp[r].status = 200
          /\ resp[r].body = "{}"
          /\ Cardinality(ProcsOf(r)) = 2

\* C2, amended: a valid payload is answered 200 with body {} and has exactly
\* one writer dispatch, whatever the number of its container keys; the one
\* writer makes at most one write_points call per container key, and exactly
\* one per key once it has returned True.
C2_OneDispatchPerRequest ==
    \A r \in 1..Len(reqs) :
       reqs[r].body.kind = "object" =>
          /\ resp[r].status = 200
          /\ resp[r].body = "{}"
          /\ Cardinality(ProcsOf(r)) = 1
          /\ metadata_fun = "default" =>
                \A p \in ProcsOf(r), c \in 1..Len(reqs[r].body.doc) :
                   /\ Cardinality(WritesOf(p, reqs[r].body.doc[c][1])) <= 1
                   /\ procs[p].result = "True" =>
                         Cardinality(WritesOf(p, reqs[r].body.doc[c][1])) = 1

\* the two-key payload was answered 200, its single writer returned True
\* and made two write_points calls
C2_Witness ==
    \E r \in 1..Len(reqs) :
       /\ reqs[r].body.doc = PayloadTwo
       /\ resp[r] = HTTP_200
       /\ \E p \in ProcsOf(r) :
             /\ procs[p].result = "True"
             /\ Cardinality({w \in 1..Len(store) : store[w].pid = p}) = 2

\* C3: the response to a non-empty, decodable request is 200 with body {} in
\* every state, whatever the state of the writer started for it: not yet
\* run, running, returned, or failed on a store write.
C3_ResponseIndependentOfWriter ==
    /\ Len(resp) = Len(reqs)
    /\ \A r \in 1..Len(reqs) :
          json_loads(reqs[r].body).ok =>
             /\ resp[r].status = 200
             /\ resp[r].body = "{}"

\* a writer failed on a store write and its request has the 200 response,
\* while the writer of another request has not run yet
C3_Witness ==
    \E p, q \in 1..Len(procs) :
       /\ procs[p].result = "False"
       /\ \E w \in 1..Len(store) : store[w].pid = p /\ ~store[w].ok
       /\ resp[procs[p].req] = HTTP_200
       /\ procs[q].st = "started"
       /\ resp[procs[q].req] = HTTP_200

\* C4: with the default writer, for every container key of a payload handed
\* to a writer with caller address A there is at most one write_points call,
\* and exactly one when the writer returned True (the store accepted every
\* write); the batch holds exactly that container's records, in order, each
\* with tags.remote_ip = A.
C4_OneTaggedBatchPerContainer ==
    metadata_fun = "default" =>
       \A p \in 1..Len(procs) :
          procs[p].entry.type = "dict" =>
             \A c \in 1..Len(procs[p].entry.items) :
                LET key == procs[p].entry.items[c][1]
                    records == procs[p].entry.items[c][2] IN
                /\ Cardinality(WritesOf(p, key)) <= 1
                /\ procs[p].result = "True" => Cardinality(WritesOf(p, key)) = 1
                /\ \A w \in WritesOf(p, key) :
                      /\ Len(store[w].points) = Len(records)
                      /\ \A n \in 1..Len(records) :
                            /\ store[w].points[n].tags.remote_ip = procs[p].remote_ip
                            /\ store[w].points[n].tags.container_name
                                  = records[n].tags.container_name
                            /\ store[w].points[n].measurement = records[n].measurement
                            /\ store[w].points[n].timestamp = records[n].timestamp

\* the payload for "c1" with 3 records from 10.0.0.5: the writer returned True
\* and the store took one batch of 3 points, each tagged remote_ip=10.0.0.5
C4_Witness ==
    \E p \in 1..Len(procs) :
       /\ procs[p].entry.items = PayloadOne
       /\ procs[p].remote_ip = "10.0.0.5"
       /\ procs[p].result = "True"
       /\ \E w \in 1..Len(store) :
             /\ store[w].pid = p
             /\ store[w].ok
             /\ store[w].container = "c1"
             /\ Len(store[w].points) = 3
             /\ \A n \in 1..3 : store[w].points[n].tags.remote_ip = "10.0.0.5"

\* C5: two requests with an identical valid payload each get a writer of
\* their own, and with the default writer, once both have returned True, the
\* store has taken every container's batch twice, once from each writer.
C5_NoDeduplication ==
    \A r1, r2 \in 1..Len(reqs) :
       (r1 < r2 /\ reqs[r1] = reqs[r2] /\ reqs[r1].body.kind = "object") =>
          /\ Cardinality(ProcsOf(r1)) = 1
          /\ Cardinality(ProcsOf(r2)) = 1
          /\ ProcsOf(r1) \cap ProcsOf(r2) = {}
          /\ ( /\ metadata_fun = "default"
               /\ \A p \in ProcsOf(r1) \cup ProcsOf(r2) : procs[p].result = "True" ) =>
                \A c \in 1..Len(reqs[r1].body.doc) :
                   Cardinality({w \in 1..Len(store) :
                                   /\ store[w].ok
                                   /\ store[w].container = reqs[r1].body.doc[c][1]
                                   /\ store[w].pid \in ProcsOf(r1) \cup ProcsOf(r2)}) = 2

\* the two-key payload was sent twice from one address, both writers returned
\* True, and the writer of the second request wrote first
C5_Witness ==
    /\ Len(reqs) = 2
    /\ reqs[1] = reqs[2]
    /\ reqs[1].body.doc = PayloadTwo
    /\ \A p \in 1..Len(procs) : procs[p].result = "True"
    /\ Len(store) = 4
    /\ procs[store[1].pid].req = 2

(***************************************************************************)
(* Properties of the sender, checked under SenderSpec                      *)
(***************************************************************************)
\* the script has ended, by the print or by an exception
Ended == pc \in {"done", "raised"}

\* the sampling process p ended on an exception of its stream
StreamBroke(p) ==
    processes[p].st \in {"terminated", "joined"} /\ processes[p].collected_stats.isNone

\* the name the aggregation loop gives the container of process p, as a
\* one-element set, or {} when the filter matches none of its Names
NameOf(p) ==
    LET value == [aliases |-> processes[p].Names, stats |-> processes[p].collected_stats] IN
    IF matching(value) = {} THEN {}
    ELSE {replace_slash(value.aliases[CHOOSE a \in matching(value) :
                                         \A b \in matching(value) : a <= b])}

\* the container keys of the payload that was posted
PostedKeys == {posts[1].data.doc[i][1] : i \in 1..Len(posts[1].data.doc)}

\* the cycle came to the transport step
ReachedSend == pc = "done" \/ (pc = "raised" /\ exc.at = "send")

\* C6, as stated: when a container's stream breaks mid-window, the series is
\* marked invalid and the cycle ends with a payload sent that has no entry
\* for the container.
C6_BrokenSeriesExcluded ==
    (Ended /\ match_container_name \in Strategies) =>
       \A p \in 1..Len(processes) :
          StreamBroke(p) =>
             /\ \E i \in 1..Len(machine_stats) :
                   machine_stats[i][1] = processes[p].Id /\ machine_stats[i][2].stats.isNone
             /\ Len(posts) = 1
             /\ NameOf(p) \cap PostedKeys = {}

\* C7, as stated: when one container's stream breaks and another matched
\* container has a valid series, the cycle ends with a payload sent that
\* holds the three records of the valid container.
C7_FailureIsolated ==
    (Ended /\ match_container_name \in Strategies) =>
       \A p, q \in 1..Len(processes) :
          ( /\ StreamBroke(p)
            /\ ~processes[q].collected_stats.isNone
            /\ Len(processes[q].collected_stats.items) >= 1
            /\ NameOf(q) # {} ) =>
             /\ Len(posts) = 1
             /\ \E i \in 1..Len(posts[1].data.doc) :
                   /\ {posts[1].data.doc[i][1]} = NameOf(q)
                   /\ Len(posts[1].data.doc[i][2]) = 3

\* C8: a cycle makes no POST before the transport step, and once it has come
\* to the transport step it has made exactly one, whose body is the whole
\* payload dict (the empty object when nothing matched).
C8_OnePostPerCycle ==
    /\ Len(posts) <= 1
    /\ Len(posts) = 1 <=> ReachedSend
    /\ ReachedSend => posts[1].data = json_dumps(payload)

\* a cycle with two matched containers ended after one POST that carried
\* both containers' records
C8_Witness ==
    /\ pc = "done"
    /\ Len(posts) = 1
    /\ Len(posts[1].data.doc) = 2
    /\ \A i \in 1..2 : Len(posts[1].data.doc[i][2]) = 3

\* C9: when the POST times out or is answered with a 4xx or 5xx status, the
\* script ends on the exception (Timeout or HTTPError) raised in send, the
\* success line is not printed and no second POST is made; when the POST is
\* answered with a 2xx status the script ends without an exception.
C9_TransportFailureSurfaced ==
    \A n \in 1..Len(posts) :
       IF posts[n].result.kind = "Timeout" \/ posts[n].result.status >= 400
       THEN /\ pc = "raised"
            /\ exc.at = "send"
            /\ exc.type = IF posts[n].result.kind = "Timeout" THEN "Timeout" ELSE "HTTPError"
            /\ ~printed
            /\ Len(posts) = 1
       ELSE /\ pc = "done"
            /\ exc = NoExc
            /\ printed

\* the collector answered 500 to a POST that carried a container's records,
\* and the script ended on HTTPError
C9_Witness ==
    /\ pc = "raised"
    /\ exc = [type |-> "HTTPError", at |-> "send"]
    /\ Len(posts) = 1
    /\ posts[1].result.status = 500
    /\ Len(posts[1].data.doc) >= 1

\* C10, as stated: for each of the three values the script names for
\* MATCH_TYPE, once the module has loaded match_container_name is bound to
\* one of the three strategies and no NameError has ended the script.
C10_FilterAlwaysDefined ==
    (MATCH_TYPE \in {"ALL", "UUID", "NO_CADVISOR"} /\ pc # "load") =>
       /\ match_container_name \in Strategies
       /\ exc.type # "NameError"

(***************************************************************************)
(* Further properties of the sender, checked under SenderSpec              *)
(***************************************************************************)
\* C14, as stated: no aggregation is attempted on a series without samples,
\* and a matched container whose series the loop has been through has at
\* least two samples whenever its deltas were computed.
C14_AggregationGuards ==
    match_container_name \in Strategies =>
       /\ exc.type # "IndexError"
       /\ \A i \in 1..Len(machine_stats) :
             ( /\ i < item_at
               /\ matching(machine_stats[i][2]) # {} ) =>
                Len(machine_stats[i][2].stats.items) >= 2

\* C18: while the loop over machine_stats runs, while send runs and after,
\* every sampling process has ended and been joined; and nothing is put in
\* the payload and nothing is posted before that.
C18_JoinedBeforeAggregation ==
    /\ ( \/ pc \in {"aggregate", "send", "done"}
         \/ (pc = "raised" /\ exc.at \in {"aggregate", "send"}) ) =>
          \A p \in 1..Len(processes) : processes[p].st = "joined"
    /\ (\E p \in 1..Len(processes) : processes[p].st # "joined") =>
          (payload = <<>> /\ posts = <<>>)

\* the loop is at the second of two series, both processes joined, and the
\* first series is already in the payload
C18_Witness ==
    /\ pc = "aggregate"
    /\ item_at = 2
    /\ Len(processes) = 2
    /\ \A p \in 1..2 : processes[p].st = "joined"
    /\ Len(payload) = 1

\* C19, as stated: the sampling tasks of a cycle run at the same time, so no
\* task has been joined while another task of the cycle is not yet started.
C19_TasksRunTogether ==
    \A p, q \in 1..Len(processes) :
       processes[p].st = "joined" => processes[q].st # "created"

\* C20: a sampling process never holds more than interval samples, holds
\* fewer while it is still reading, and the samples kept in machine_stats
\* are at most interval per container.
C20_SeriesBounded ==
    /\ \A p \in 1..Len(processes) :
          /\ Len(processes[p].collected_stats.items) <= interval
          /\ processes[p].st = "running" =>
                Len(processes[p].collected_stats.items) < interval
    /\ Len(machine_stats) <= Len(processes)
    /\ \A i \in 1..Len(machine_stats) :
          Len(machine_stats[i][2].stats.items) <= interval

\* one process stopped at the full window, another stopped earlier because
\* its stream ended
C20_Witness ==
    /\ Len(machine_stats) = 2
    /\ Len(machine_stats[1][2].stats.items) = interval
    /\ ~machine_stats[2][2].stats.isNone
    /\ Len(machine_stats[2][2].stats.items) = 1
    /\ \A p \in 1..2 : processes[p].st \in {"terminated", "joined"}

(***************************************************************************)
(* Further properties of the collector, checked under Spec                 *)
(***************************************************************************)
\* process p made a write_points call that raised
WriteFailed(p) == \E w \in 1..Len(store) : store[w].pid = p /\ ~store[w].ok

\* C15, as stated: a body that json.loads cannot decode is rejected like an
\* empty one, with a client error that carries a detail, and no Process is
\* started for it.
C15_MalformedRejectedWithDetail ==
    \A r \in 1..Len(reqs) :
       reqs[r].body.kind = "text" =>
          /\ resp[r].status >= 400
          /\ resp[r].status < 500
          /\ resp[r].title # "" \/ resp[r].description # ""
          /\ ProcsOf(r) = {}

\* C16, as stated: a failed store write is logged and, ignore_fail being
\* False as process passes it, raised again: the writer ends on the
\* exception.
C16_FailureReraised ==
    \A p \in 1..Len(procs) :
       WriteFailed(p) =>
          /\ <<"writer", p>> \in log
          /\ procs[p].st = "raised"

\* C16, amended: a failed store write is logged and never raised again:
\* _get_metadata_default returns ignore_fail, which is False as process
\* passes it, and the writer ends by returning.
C16_FailureLoggedAndReturned ==
    \A p \in 1..Len(procs) :
       WriteFailed(p) =>
          /\ <<"writer", p>> \in log
          /\ procs[p].st = "returned"
          /\ procs[p].ignore_fail = "False"
          /\ procs[p].result = "False"

\* the writer of the two-key payload had its first write accepted and its
\* second refused
C16_Witness ==
    \E p \in 1..Len(procs) :
       /\ procs[p].entry.items = PayloadTwo
       /\ \E w \in 1..Len(store) : store[w].pid = p /\ store[w].ok
       /\ WriteFailed(p)
       /\ procs[p].result = "False"

\* C17: every request answered 200 has exactly one Process, given the whole
\* decoded document and the caller's address; the Process has not been
\* joined (the response exists whatever its state), and once it has run it
\* has made one store client and called the write callback exactly once,
\* the default one or the injected one.
C17_OneCallPerRequest ==
    \A r \in 1..Len(reqs) :
       resp[r].status = 200 =>
          /\ Cardinality(ProcsOf(r)) = 1
          /\ \A p \in ProcsOf(r) :
                /\ procs[p].entry = json_loads(reqs[r].body).value
                /\ procs[p].remote_ip = reqs[r].remote_ip
                /\ IF procs[p].st = "started"
                   THEN procs[p].calls = 0 /\ procs[p].clients = 0
                   ELSE procs[p].calls = 1 /\ procs[p].clients = 1

\* with an injected callback: one request's Process has called it once and
\* returned, another request has its 200 while its Process has not run
C17_Witness ==
    /\ metadata_fun = "injected"
    /\ \E p, q \in 1..Len(procs) :
          /\ procs[p].entry.items = PayloadTwo
          /\ procs[p].st = "returned"
          /\ procs[p].calls = 1
          /\ procs[q].st = "started"
          /\ resp[procs[q].req] = HTTP_200

(***************************************************************************)
(* Properties of the aggregation loops, checked under AggregatorSpec       *)
(***************************************************************************)
\* the container the loop is given, and its series
Given == machine_stats[1][2]

GivenSeries == Given.stats.items

\* the series is of the docker stream (its documents have 'read')
DockerGiven == "read" \in DOMAIN GivenSeries[1]

\* the loop turn put the container's records in the payload
Aggregated == Len(payload) = 1

\* the fields of the container's cpu.usage, memory.usage and network.usage
cpu_fields == payload[1][2][1].fields

memory_fields == payload[1][2][2].fields

network_fields == payload[1][2][3].fields

\* one of the aliases is the sender's own, as docker ("/sender") or as
\* cadvisor ("sender") reports it
HasSenderAlias(aliases) ==
    \E a \in 1..Len(aliases) : replace_slash(aliases[a]) = <<"sender">>

CpuCounter(doc) ==
    IF DockerGiven THEN doc.cpu_stats.cpu_usage.total_usage ELSE doc.cpu.usage.total

\* last sample's counter minus first sample's counter
CpuDelta == CpuCounter(GivenSeries[Len(GivenSeries)]) - CpuCounter(GivenSeries[1])

NetDelta(field) == GivenSeries[Len(GivenSeries)].network[field] - GivenSeries[1].network[field]

PacketFields == {"tx_packets", "rx_packets", "tx_errors", "rx_errors", "tx_dropped", "rx_dropped"}

\* C12, as stated: every cumulative field of an aggregated series, the tx
\* and rx byte fields included, is the last sample's counter minus the first
\* sample's counter.
C12_EveryFieldIsTheCounterDifference ==
    Aggregated =>
        /\ cpu_fields.total = CpuDelta
        /\ \A f \in PacketFields : network_fields[f] = NetDelta(f)
        /\ network_fields.tx_kb = Num(NetDelta("tx_bytes"), 1)
        /\ network_fields.rx_kb = Num(NetDelta("rx_bytes"), 1)

\* C12, amended: for an aggregated series, cpu.usage total and the packets,
\* errors and dropped fields are the last sample's counter minus the first
\* sample's, and tx_kb and rx_kb are the byte counters' difference divided by
\* 1024; a counter that went down gives the negative value, not zero.
C12_DifferencesPassedThrough ==
    Aggregated =>
        /\ cpu_fields.total = CpuDelta
        /\ \A f \in PacketFields : network_fields[f] = NetDelta(f)
        /\ network_fields.tx_kb = Num(NetDelta("tx_bytes"), 1024)
        /\ network_fields.rx_kb = Num(NetDelta("rx_bytes"), 1024)
        /\ (CpuDelta < 0) => (cpu_fields.total < 0)
        /\ (NetDelta("tx_packets") < 0) => (network_fields.tx_packets < 0)
        /\ (NetDelta("tx_bytes") < 0) => (network_fields.tx_kb.n < 0)

\* a series whose counters went down was aggregated on the cadvisor path,
\* and its fields are negative
C12_Witness ==
    /\ Aggregated
    /\ ~DockerGiven
    /\ NetDelta("tx_packets") < 0
    /\ network_fields.tx_packets < 0
    /\ cpu_fields.total < 0

\* the memory reading of a document of the given series, in bytes
MemoryOf(doc) == IF DockerGiven THEN doc.memory_stats.usage ELSE doc.memory.usage

GivenMemory == {MemoryOf(GivenSeries[n]) : n \in 1..Len(GivenSeries)}

RECURSIVE SumMemory(_)
SumMemory(n) == IF n = 0 THEN 0 ELSE SumMemory(n - 1) + MemoryOf(GivenSeries[n])

TrueMin == CHOOSE u \in GivenMemory : \A v \in GivenMemory : u <= v

TrueMax == CHOOSE u \in GivenMemory : \A v \in GivenMemory : v <= u

\* C13, as stated: for an aggregated series of L memory readings, total is
\* the sum of the readings (in kb), min the least and max the greatest of
\* them, ave * L == total, and min <= ave <= max.
C13_AveTimesLengthIsTotal ==
    Aggregated =>
        LET L == Len(GivenSeries) IN
        /\ memory_fields.total = Num(SumMemory(L), 1024)
        /\ memory_fields.min = Num(TrueMin, 1024)
        /\ memory_fields.max = Num(TrueMax, 1024)
        /\ FloatMul(memory_fields.ave, L) = Float(memory_fields.total)
        /\ ~FloatLt(memory_fields.ave, Float(memory_fields.min))
        /\ ~FloatLt(Float(memory_fields.max), memory_fields.ave)

\* ave is a float nearest to total / m: ave * m, taken exactly, is within
\* m / 2 units in the last place of ave from total
NearestQuotient(ave, total, m) ==
    IF total.n = 0 THEN ave = FloatZero
    ELSE LET k == 0 - ave.exp - 26 - Log2(total.d) IN
         /\ ave.sign = (IF total.n < 0 THEN -1 ELSE 1)
         /\ k >= 0
         /\ LET prod == FloatTimes(ave, m)
                over == prod.hi - Abs(total.n) * 2^k IN
            /\ over \in {-1, 0}
            /\ 2 * Abs(over * Limb + prod.lo) <= m

\* C13, amended: for an aggregated series of L memory readings, total is the
\* sum of the readings (in kb), min the least and max the greatest of them,
\* also when all are zero or all negative; ave is the float nearest to
\* total / L, so that min <= ave <= max, and ave * L is total up to that
\* rounding only.
C13_TotalMinMaxAndRoundedAve ==
    Aggregated =>
        LET L == Len(GivenSeries) IN
        /\ memory_fields.total = Num(SumMemory(L), 1024)
        /\ memory_fields.min = Num(TrueMin, 1024)
        /\ memory_fields.max = Num(TrueMax, 1024)
        /\ NearestQuotient(memory_fields.ave, memory_fields.total, L)
        /\ ~FloatLt(memory_fields.ave, Float(memory_fields.min))
        /\ ~FloatLt(Float(memory_fields.max), memory_fields.ave)

\* a series with a negative reading was aggregated, and its ave times its
\* length is not its total
C13_Witness ==
    /\ Aggregated
    /\ TrueMin < 0
    /\ FloatMul(memory_fields.ave, Len(GivenSeries)) # Float(memory_fields.total)

(***************************************************************************)
(* The writes of one writer, checked under Spec                            *)
(***************************************************************************)
\* the write_points calls of process p, as places in the store
WritesBy(p) == {w \in 1..Len(store) : store[w].pid = p}

\* the place of the call w among the calls of its process
RankOf(w) == Cardinality({v \in WritesBy(store[w].pid) : v <= w})

\* the calls of every writer go through the keys of its entry in order, one
\* call per key, and a call that failed is the last one of its writer, which
\* has returned
PrefixWritten ==
    \A w \in 1..Len(store) :
       LET p == store[w].pid IN
       /\ RankOf(w) <= Len(procs[p].entry.items)
       /\ store[w].container = procs[p].entry.items[RankOf(w)][1]
       /\ ~store[w].ok => /\ \A v \in WritesBy(p) : v <= w
                           /\ procs[p].st = "returned"

\* a step leaves the writes already in the store as they are
StoreKept ==
    /\ Len(store') >= Len(store)
    /\ \A w \in 1..Len(store) : store'[w] = store[w]

\* C21: within one writer, once the store write of a container has failed no
\* write is attempted for the containers after it, the writes made for the
\* containers before it stay in the store, and the containers written are a
\* prefix of the order of entry.keys().
C21_WrittenIsPrefix == []PrefixWritten /\ [][StoreKept]_vars

\* one writer of a two-key payload failed on its first container and made
\* no second call; another wrote its first container and failed on the
\* second, the first write being still in the store
C21_Witness ==
    \E p, q \in 1..Len(procs) :
       /\ Len(procs[p].entry.items) = 2
       /\ procs[p].st = "returned"
       /\ Cardinality(WritesBy(p)) = 1
       /\ \A w \in WritesBy(p) : ~store[w].ok
       /\ Len(procs[q].entry.items) = 2
       /\ procs[q].st = "returned"
       /\ \E v, w \in WritesBy(q) : v < w /\ store[v].ok /\ ~store[w].ok

====
